---- MODULE Spec2Model ----
(***************************************************************************)
(* Model of examples/ldns-gen-filter-rr.c: load the RRSIGs of two zone     *)
(* files, canonicalise and sort them, sort-merge difference with the       *)
(* staleness test, bucketing by expiration day, one bloom filter per       *)
(* bucket, and assembly of the filter into a chunked TXT record.           *)
(*                                                                         *)
(* The ldns and bloom libraries are outside the file; they are modelled    *)
(* by the part of their behaviour that main() depends on.                  *)
(***************************************************************************)
EXTENDS Integers, Sequences, FiniteSets, TLC

--------------------------------------------------------------------------
(* Bounds of the model *)

\* uint32_t is modelled as an unsigned integer of UintBits bits
UintBits == 20

\* largest number of bytes of a bloom filter's bit array
MaxBloomBytes == 520

--------------------------------------------------------------------------
(* Program constants *)

SecsPerDay == 86400

MaxChunk == 255

\* the image of struct bloom that is copied into the payload
SizeofBloom == 64

NullPtr == "NULL"

Modulus == 2 ^ UintBits

\* conversion to uint32_t (wraps)
U32(x) == x % Modulus

Max(a, b) == IF a > b THEN a ELSE b

--------------------------------------------------------------------------
(* Records.  A record is [id, name, type, ottl, exp]: id is the identity   *)
(* of the heap object, name the owner name (one character code), ottl and  *)
(* exp the original-TTL and expiration rdata fields of an RRSIG.  A line   *)
(* of type "EMPTY" is a blank or comment line of the file.                 *)

Rec(id, name, type, ottl, exp) ==
  [id |-> id, name |-> name, type |-> type, ottl |-> ottl, exp |-> exp]

\* numeric RR types as ldns_rr_get_type returns them
TypeCode(t) == CASE t = "A" -> 1 [] t = "SOA" -> 6 [] t = "RRSIG" -> 46 [] OTHER -> 0

\* tolower on one character code
ToLower(c) == IF c >= 65 /\ c <= 90 THEN c + 32 ELSE c

\* ldns_rr2canonical: owner name (and names in the rdata) to lower case
Rr2Canonical(r) == [r EXCEPT !.name = ToLower(r.name)]

\* ldns_rr_compare: owner name, then type, then the rdata in wire order;
\* neither the TTL nor the identity of the object takes part
Compare(r1, r2) ==
  IF r1.name # r2.name THEN (IF r1.name < r2.name THEN -1 ELSE 1)
  ELSE IF r1.type # r2.type THEN TypeCode(r1.type) - TypeCode(r2.type)
  ELSE IF r1.ottl # r2.ottl THEN (IF r1.ottl < r2.ottl THEN -1 ELSE 1)
  ELSE IF r1.exp # r2.exp THEN (IF r1.exp < r2.exp THEN -1 ELSE 1)
  ELSE 0

IsSorted(s) == \A n \in 1..(Len(s) - 1) : Compare(s[n], s[n + 1]) <= 0

Perms(n) == {p \in [1..n -> 1..n] : \A a, b \in 1..n : a # b => p[a] # p[b]}

\* ldns_rr_list_sort: qsort under ldns_rr_compare; the order of equal
\* records is not determined
SortedLists(s) ==
  {t \in {[n \in 1..Len(s) |-> s[p[n]]] : p \in Perms(Len(s))} : IsSorted(t)}

CanonList(s) == [n \in 1..Len(s) |-> Rr2Canonical(s[n])]

\* the records of a list without their identities
Content(s) == [n \in 1..Len(s) |-> [s[n] EXCEPT !.id = <<"-", 0>>]]

Ids(s) == {s[n].id : n \in 1..Len(s)}

Occurrences(s, id) == Cardinality({n \in 1..Len(s) : s[n].id = id})

--------------------------------------------------------------------------
(* load_rrsigs *)

RECURSIVE ReadFlat(_)
\* the loop of the flat mode: it ends at the first status that is not OK
\* (a blank line gives LDNS_STATUS_SYNTAX_EMPTY) and keeps the RRSIGs
ReadFlat(stream) ==
  IF stream = <<>> \/ Head(stream).type = "EMPTY" THEN <<>>
  ELSE IF Head(stream).type = "RRSIG"
       THEN <<Head(stream)>> \o ReadFlat(Tail(stream))
       ELSE ReadFlat(Tail(stream))

RECURSIVE FlatFreed(_)
\* the records the flat mode hands to ldns_rr_free
FlatFreed(stream) ==
  IF stream = <<>> \/ Head(stream).type = "EMPTY" THEN {}
  ELSE IF Head(stream).type = "RRSIG"
       THEN FlatFreed(Tail(stream))
       ELSE {Head(stream).id} \cup FlatFreed(Tail(stream))

\* the zone mode: ldns_zone_new_frm_fp_l skips blank lines, keeps the SOA
\* apart, and ldns_zone_rrs is the list of all the other records
ZoneRrs(stream) ==
  SelectSeq(stream, LAMBDA r : r.type # "EMPTY" /\ r.type # "SOA")

LoadRrsigs(stream, mode) == IF mode THEN ZoneRrs(stream) ELSE ReadFlat(stream)

--------------------------------------------------------------------------
(* The differencer, the bucketer and the filter builder *)

\* the staleness test of the merge walk, in uint32_t arithmetic
Stale(now, buffer, r) ==
  U32(now + r.ottl) < r.exp /\ U32(now + buffer) < r.exp

\* faulty variant of TailEmits: the staleness test applied to the tail too
TailEmitsIfStale(now, buffer, r) == Stale(now, buffer, r)

\* what the loop after the merge walk asks of a record before it pushes it
TailEmits(now, buffer, r) == TRUE

\* faulty variant of CloneRr: the list shares the record instead of copying it
CloneRrShared(r, k) == r

\* ldns_rr_clone of the k-th record of the list: a new heap object
CloneRr(r, k) == [r EXCEPT !.id = <<"cl", k>>]

\* ldns_rr_list_clone clones every record of the list
CloneList(s) == [n \in 1..Len(s) |-> CloneRr(s[n], n)]

\* faulty variant of ExpDay: seconds per hour in place of seconds per day
ExpDayInHours(exp) == exp \div 3600

\* the key of a signature's bucket
ExpDay(exp) == exp \div SecsPerDay

\* faulty variant of FilterCapacity: a floor of 1000 entries
FilterCapacityFloored(n) == Max(n, 1000)

\* the entries argument of bloom_init2 for a bucket of n signatures
FilterCapacity(n) == n

\* bloom_init2 refuses a false positive rate that is not greater than 0
BloomInit2Fails(entries, error) == error <= 0

\* faulty variant of DomainMissing: the test is left out
DomainNeverMissing(d) == FALSE

\* the test that stops the run for want of a domain name
DomainMissing(d) == d = NullPtr

--------------------------------------------------------------------------
(* The record assembler *)

\* gmtime_r, for the first month of the epoch
GmTime(t) ==
  [year |-> 1970, mon |-> 1, mday |-> (t \div SecsPerDay) + 1,
   hour |-> (t % SecsPerDay) \div 3600, min |-> (t % 3600) \div 60,
   sec |-> t % 60]

RECURSIVE Digits(_)
\* %u and %d: the decimal digits of n as character codes
Digits(n) == IF n < 10 THEN <<48 + n>> ELSE Digits(n \div 10) \o <<48 + (n % 10)>>

\* %02d
TwoDigits(n) == IF n < 10 THEN <<48, 48 + n>> ELSE Digits(n)

\* "_filter.%04d%02d%02d.%s"
OwnerName(t, d) ==
  [year |-> GmTime(t).year, mon |-> GmTime(t).mon, mday |-> GmTime(t).mday,
   domain |-> d]

\* "v=%u;s=%02d%02d%02d;a=0;d="
HeaderBuf(v, t) ==
  <<118, 61>> \o Digits(v) \o <<59, 115, 61>>
    \o TwoDigits(GmTime(t).hour) \o TwoDigits(GmTime(t).min)
    \o TwoDigits(GmTime(t).sec)
    \o <<59, 97, 61, 48, 59, 100, 61>>

\* the bytes of struct bloom as memcpy reads them
BloomImage(b) == [n \in 1..SizeofBloom |-> (b.entries + b.bytes + n) % 256]

\* the bit array of the filter after the signatures were added
BloomBits(b) == [n \in 1..b.bytes |-> (31 * n + b.added) % 256]

\* full_data: header, struct bloom, bit array
FullData(v, t, b) == HeaderBuf(v, t) \o BloomImage(b) \o BloomBits(b)

\* faulty variant of ChunkSize: 256 bytes, the size of chunk_buf, as the limit
ChunkSizeWide(remaining) == IF remaining > 256 THEN 256 ELSE remaining

\* chunk_size for the bytes that remain
ChunkSize(remaining) == IF remaining > MaxChunk THEN MaxChunk ELSE remaining

\* chunk_buf: the length byte, then the data
ChunkBuf(data, offset, size) ==
  <<size % 256>> \o SubSeq(data, offset + 1, offset + size)

--------------------------------------------------------------------------
(* Inputs: the lines of the two zone files and the options *)

X == <<97, "RRSIG", 3600, 180000>>
XU == <<65, "RRSIG", 3600, 180000>>
Y == <<98, "RRSIG", 3600, 600000>>
Z == <<97, "RRSIG", 3600, 100000>>
V == <<97, "RRSIG", 3600, 90000>>
W == <<97, "RRSIG", Modulus - 3600, 180000>>
AR == <<97, "A", 0, 7>>
SOA == <<97, "SOA", 0, 1>>
E == <<0, "EMPTY", 0, 0>>

\* the lines of a file as heap objects tag.1, tag.2, ...
MkStream(tag, s) ==
  [n \in 1..Len(s) |-> Rec(<<tag, n>>, s[n][1], s[n][2], s[n][3], s[n][4])]

Files1 ==
  {<<>>, <<X>>, <<Y, X>>, <<X, XU>>, <<Z, V, Y>>, <<W, X, Y>>,
   <<SOA, AR, X, Y>>, <<X, E, Y>>, <<V, X, W, Y>>}

Files2 == {<<>>, <<X>>, <<X, Y>>, <<Y>>, <<AR, Y>>}

\* pairs of current time and expiration buffer (-c and -b)
Clocks ==
  {<<0, 0>>, <<0, 2 * SecsPerDay>>, <<SecsPerDay, 0>>,
   <<SecsPerDay, U32(-1)>>, <<200000, 2 * SecsPerDay>>}

\* false positive rates (-p) in tenths; the default is 0.2
Rates == {-1, 0, 2}

BloomBytesChoices ==
  {1, MaxBloomBytes} \cup
  {c * MaxChunk - SizeofBloom - Len(HeaderBuf(0, 0)) + d : c \in 1..2, d \in {-1, 0, 1}}

NoBloom == [ready |-> FALSE, entries |-> 0, error |-> 0, bytes |-> 0, added |-> 0]

NoRr == [owner |-> OwnerName(0, NullPtr), ttl |-> 0, rdata |-> <<>>]

VARIABLES
  files,            \* the file system: the two zone files, what can be opened, the keys
  false_positive, rrsig_file, current_time, exp_buffer_sec, domain_name,
  version, key_list,
  pc, exitStatus,
  sigs1, sigs2, i1, i2, tmp_rrsigs, affected_rrsigs,
  exp2rr_list, i, pending, k,
  bloom, max_exp, full_data, txt_rr, offset,
  out,              \* the records printed to the output file
  frees,            \* heap object -> number of times it was freed
  uaf,              \* a freed record was read
  filesRead, outputOpened, filtersCreated

options ==
  <<files, false_positive, rrsig_file, current_time, exp_buffer_sec,
    domain_name, version>>

diff == <<sigs1, sigs2, i1, i2, tmp_rrsigs, affected_rrsigs>>

buckets == <<exp2rr_list, i>>

build == <<pending, k, bloom, max_exp, full_data, txt_rr, offset>>

history == <<filesRead, outputOpened, filtersCreated>>

vars ==
  <<options, key_list, pc, exitStatus, diff, buckets, build, out, frees, uaf,
    history>>

\* the locals of main before the files are read
Start ==
  /\ key_list = FALSE
  /\ pc = "keys"
  /\ exitStatus = "running"
  /\ sigs1 = <<>> /\ sigs2 = <<>> /\ i1 = 0 /\ i2 = 0
  /\ tmp_rrsigs = <<>> /\ affected_rrsigs = <<>>
  /\ exp2rr_list = <<>> /\ i = 0 /\ pending = {} /\ k = 0
  /\ bloom = NoBloom /\ max_exp = 0 /\ full_data = <<>> /\ txt_rr = NoRr
  /\ offset = 0
  /\ out = <<>>
  /\ frees = <<>>
  /\ uaf = FALSE
  /\ filesRead = {} /\ outputOpened = FALSE /\ filtersCreated = 0

\* runs that differ in the zone files, the clock and the input mode
InitDiff ==
  /\ \E f1 \in Files1, f2 \in Files2 :
       files = [zone1 |-> MkStream("f1", f1), zone2 |-> MkStream("f2", f2),
                open1 |-> TRUE, open2 |-> TRUE, openOut |-> TRUE,
                keys |-> "none"]
  /\ \E c \in Clocks : current_time = c[1] /\ exp_buffer_sec = c[2]
  /\ rrsig_file \in BOOLEAN
  /\ false_positive = 2
  /\ domain_name = "example."
  /\ version = 0

\* runs that differ in the options and in what can be opened
InitOptions ==
  /\ \E f1 \in {<<X>>, <<Z, V, Y>>}, f2 \in {<<>>, <<X>>},
        o1, o2, oo \in BOOLEAN, ks \in {"none", "ok", "bad"} :
       files = [zone1 |-> MkStream("f1", f1), zone2 |-> MkStream("f2", f2),
                open1 |-> o1, open2 |-> o2, openOut |-> oo, keys |-> ks]
  /\ current_time = 0 /\ exp_buffer_sec = 2 * SecsPerDay
  /\ rrsig_file = FALSE
  /\ false_positive \in Rates
  /\ domain_name \in {NullPtr, "example."}
  /\ version \in {0, 12}

Init == Start /\ (InitDiff \/ InitOptions)

--------------------------------------------------------------------------
(* The heap *)

FreesOf(f, id) == IF id \in DOMAIN f THEN f[id] ELSE 0

\* ldns_rr_list_deep_free: every record of the list is freed
DeepFree(f, s) ==
  [id \in DOMAIN f \cup Ids(s) |-> FreesOf(f, id) + Occurrences(s, id)]

\* ldns_rr_free on each record of a set
FreeEach(f, ids) ==
  [id \in DOMAIN f \cup ids |-> FreesOf(f, id) + (IF id \in ids THEN 1 ELSE 0)]

\* some record of the list was freed before this read
ReadsFreed(f, s) == \E n \in 1..Len(s) : FreesOf(f, s[n].id) > 0

RECURSIVE MapLists(_, _)
\* the lists of the map, one after another
MapLists(map, days) ==
  IF days = {} THEN <<>>
  ELSE LET d == CHOOSE x \in days : TRUE
       IN map[d] \o MapLists(map, days \ {d})

\* deep_free_map2rr_list
DeepFreeMap(f, map) == DeepFree(f, MapLists(map, DOMAIN map))

\* exit(status), or the return of main
Exit(status) == pc' = "exit" /\ exitStatus' = status

--------------------------------------------------------------------------
(* main *)

\* lines 225-286: the key files named after the two zone files
LoadKeys ==
  /\ pc = "keys"
  /\ \/ /\ files.keys = "bad"
        /\ Exit("failure")
        /\ UNCHANGED key_list
     \/ /\ files.keys = "ok"
        /\ key_list' = TRUE
        /\ pc' = "load1"
        /\ UNCHANGED exitStatus
     \/ /\ files.keys = "none"
        /\ pc' = "load1"
        /\ UNCHANGED <<key_list, exitStatus>>
  /\ UNCHANGED <<options, diff, buckets, build, out, frees, uaf, history>>

\* lines 288-296
LoadSigs1 ==
  /\ pc = "load1"
  /\ \/ /\ ~files.open1
        /\ Exit("failure")
        /\ UNCHANGED <<sigs1, frees, filesRead>>
     \/ /\ files.open1
        /\ sigs1' = LoadRrsigs(files.zone1, rrsig_file)
        /\ frees' = IF rrsig_file THEN frees
                    ELSE FreeEach(frees, FlatFreed(files.zone1))
        /\ filesRead' = filesRead \cup {1}
        /\ pc' = "load2"
        /\ UNCHANGED exitStatus
  /\ UNCHANGED <<options, key_list, sigs2, i1, i2, tmp_rrsigs, affected_rrsigs,
                 buckets, build, out, uaf, outputOpened, filtersCreated>>

\* lines 298-305
LoadSigs2 ==
  /\ pc = "load2"
  /\ \/ /\ ~files.open2
        /\ Exit("failure")
        /\ UNCHANGED <<sigs2, frees, filesRead>>
     \/ /\ files.open2
        /\ sigs2' = LoadRrsigs(files.zone2, rrsig_file)
        /\ frees' = IF rrsig_file THEN frees
                    ELSE FreeEach(frees, FlatFreed(files.zone2))
        /\ filesRead' = filesRead \cup {2}
        /\ pc' = "sort"
        /\ UNCHANGED exitStatus
  /\ UNCHANGED <<options, key_list, sigs1, i1, i2, tmp_rrsigs, affected_rrsigs,
                 buckets, build, out, uaf, outputOpened, filtersCreated>>

\* lines 307-323
CanonSort ==
  /\ pc = "sort"
  /\ sigs1' \in SortedLists(CanonList(sigs1))
  /\ sigs2' \in SortedLists(CanonList(sigs2))
  /\ i1' = 0 /\ i2' = 0
  /\ tmp_rrsigs' = <<>>
  /\ uaf' = (uaf \/ ReadsFreed(frees, sigs1) \/ ReadsFreed(frees, sigs2))
  /\ pc' = "merge"
  /\ UNCHANGED <<options, key_list, exitStatus, affected_rrsigs, buckets, build,
                 out, frees, history>>

InMerge == pc = "merge" /\ i1 < Len(sigs1) /\ i2 < Len(sigs2)

rr1 == sigs1[i1 + 1]

rr2 == sigs2[i2 + 1]

\* lines 330-364: cmp < 0
MergeLess ==
  /\ InMerge
  /\ Compare(rr1, rr2) < 0
  /\ uaf' = (uaf \/ ReadsFreed(frees, <<rr1, rr2>>))
  /\ \/ /\ rr1.type # "RRSIG"
        \* ldns_rr_rrsig_origttl is NULL; ldns_rdf2native_int32 reads through it
        /\ Exit("crash")
        /\ UNCHANGED <<i1, tmp_rrsigs>>
     \/ /\ rr1.type = "RRSIG"
        /\ tmp_rrsigs' = IF Stale(current_time, exp_buffer_sec, rr1)
                         THEN Append(tmp_rrsigs, rr1) ELSE tmp_rrsigs
        /\ i1' = i1 + 1
        /\ UNCHANGED <<pc, exitStatus>>
  /\ UNCHANGED <<options, key_list, sigs1, sigs2, i2, affected_rrsigs, buckets,
                 build, out, frees, history>>

\* lines 365-367: cmp > 0
MergeGreater ==
  /\ InMerge
  /\ Compare(rr1, rr2) > 0
  /\ uaf' = (uaf \/ ReadsFreed(frees, <<rr1, rr2>>))
  /\ i2' = i2 + 1
  /\ UNCHANGED <<options, key_list, pc, exitStatus, sigs1, sigs2, i1, tmp_rrsigs,
                 affected_rrsigs, buckets, build, out, frees, history>>

\* lines 368-371: cmp == 0
MergeEqual ==
  /\ InMerge
  /\ Compare(rr1, rr2) = 0
  /\ uaf' = (uaf \/ ReadsFreed(frees, <<rr1, rr2>>))
  /\ i1' = i1 + 1
  /\ i2' = i2 + 1
  /\ UNCHANGED <<options, key_list, pc, exitStatus, sigs1, sigs2, tmp_rrsigs,
                 affected_rrsigs, buckets, build, out, frees, history>>

\* lines 374-378: the rest of sigs1 once the merge walk has ended
TailStep ==
  /\ pc = "merge"
  /\ ~(i1 < Len(sigs1) /\ i2 < Len(sigs2))
  /\ i1 < Len(sigs1)
  /\ tmp_rrsigs' = IF TailEmits(current_time, exp_buffer_sec, rr1)
                   THEN Append(tmp_rrsigs, rr1) ELSE tmp_rrsigs
  /\ i1' = i1 + 1
  /\ UNCHANGED <<options, key_list, pc, exitStatus, sigs1, sigs2, i2,
                 affected_rrsigs, buckets, build, out, frees, uaf, history>>

\* lines 380-388
CloneAndFree ==
  /\ pc = "merge"
  /\ i1 >= Len(sigs1)
  /\ affected_rrsigs' = CloneList(tmp_rrsigs)
  /\ uaf' = (uaf \/ ReadsFreed(frees, tmp_rrsigs))
  /\ frees' = DeepFree(DeepFree(frees, sigs1), sigs2)
  /\ exp2rr_list' = <<>>
  /\ i' = 0
  /\ pc' = "bucket"
  /\ UNCHANGED <<options, key_list, exitStatus, sigs1, sigs2, i1, i2, tmp_rrsigs,
                 build, out, history>>


rrsig == affected_rrsigs[i + 1]

\* map32_put and ldns_rr_list_push_rr: the list of the day, new when absent
MapPush(map, day, r) ==
  [d \in DOMAIN map \cup {day} |->
     IF d = day
     THEN (IF day \in DOMAIN map THEN Append(map[day], r) ELSE <<r>>)
     ELSE map[d]]

\* lines 389-406: one turn of the bucketing loop
BucketStep ==
  /\ pc = "bucket"
  /\ i < Len(affected_rrsigs)
  /\ uaf' = (uaf \/ ReadsFreed(frees, <<rrsig>>))
  /\ \/ /\ rrsig.type # "RRSIG"
        \* ldns_rr_rrsig_expiration is NULL; ldns_rdf2native_int32 reads through it
        /\ Exit("crash")
        /\ UNCHANGED <<exp2rr_list, i>>
     \/ /\ rrsig.type = "RRSIG"
        /\ exp2rr_list' = MapPush(exp2rr_list, ExpDay(rrsig.exp), rrsig)
        /\ i' = i + 1
        /\ UNCHANGED <<pc, exitStatus>>
  /\ UNCHANGED <<options, key_list, diff, build, out, frees, history>>

\* lines 408-415
OpenOutput ==
  /\ pc = "bucket"
  /\ i >= Len(affected_rrsigs)
  /\ \/ /\ ~files.openOut
        /\ frees' = DeepFreeMap(frees, exp2rr_list)
        /\ Exit("file_err")
        /\ UNCHANGED <<pending, outputOpened>>
     \/ /\ files.openOut
        /\ outputOpened' = TRUE
        /\ pending' = DOMAIN exp2rr_list
        /\ pc' = "foreach"
        /\ UNCHANGED <<exitStatus, frees>>
  /\ UNCHANGED <<options, key_list, diff, buckets, k, bloom, max_exp, full_data,
                 txt_rr, offset, out, uaf, filesRead, filtersCreated>>

\* lines 417-429: the next bucket of kh_foreach, in the order of the hash
\* table, and bloom_init2 for it
BloomInit ==
  /\ pc = "foreach"
  /\ \E day \in pending :
       /\ k' = day
       /\ pending' = pending \ {day}
       /\ LET rrsig_num == Len(exp2rr_list[day])
              entries == FilterCapacity(rrsig_num)
          IN \/ /\ BloomInit2Fails(entries, false_positive)
                /\ Exit("failure")
                /\ UNCHANGED <<bloom, max_exp, filtersCreated>>
             \/ /\ ~BloomInit2Fails(entries, false_positive)
                /\ \E nbytes \in BloomBytesChoices :
                     bloom' = [ready |-> TRUE, entries |-> entries,
                               error |-> false_positive, bytes |-> nbytes,
                               added |-> 0]
                /\ max_exp' = 0
                /\ filtersCreated' = filtersCreated + 1
                /\ pc' = "add"
                /\ UNCHANGED exitStatus
  /\ UNCHANGED <<options, key_list, diff, buckets, full_data, txt_rr, offset,
                 out, frees, uaf, filesRead, outputOpened>>

RECURSIVE MaxExp(_)
\* the largest expiration of a list, from 0
MaxExp(s) == IF s = <<>> THEN 0 ELSE Max(Head(s).exp, MaxExp(Tail(s)))

\* lines 431-453: the signatures of the bucket go into the filter
BloomAdd ==
  /\ pc = "add"
  /\ uaf' = (uaf \/ ReadsFreed(frees, exp2rr_list[k]))
  /\ max_exp' = MaxExp(exp2rr_list[k])
  /\ bloom' = [bloom EXCEPT !.added = Len(exp2rr_list[k])]
  /\ pc' = "domain"
  /\ UNCHANGED <<options, key_list, exitStatus, diff, buckets, pending, k,
                 full_data, txt_rr, offset, out, frees, history>>

\* lines 455-502: the domain name is asked for, then the owner name, the
\* header and the payload are built
Assemble ==
  /\ pc = "domain"
  /\ \/ /\ DomainMissing(domain_name)
        /\ frees' = DeepFreeMap(frees, exp2rr_list)
        /\ Exit("failure")
        /\ UNCHANGED <<full_data, txt_rr, offset>>
     \/ /\ ~DomainMissing(domain_name)
        /\ full_data' = FullData(version, max_exp, bloom)
        /\ txt_rr' = [owner |-> OwnerName(max_exp, domain_name), ttl |-> 900,
                      rdata |-> <<>>]
        /\ offset' = 0
        /\ pc' = "chunk"
        /\ UNCHANGED <<exitStatus, frees>>
  /\ UNCHANGED <<options, key_list, diff, buckets, pending, k, bloom, max_exp,
                 out, uaf, history>>

full_len == Len(full_data)

\* lines 503-514: one turn of the chunking loop
ChunkStep ==
  /\ pc = "chunk"
  /\ offset < full_len
  /\ LET chunk_size == ChunkSize(full_len - offset)
     IN /\ txt_rr' = [txt_rr EXCEPT
                        !.rdata = Append(@, ChunkBuf(full_data, offset, chunk_size))]
        /\ offset' = offset + chunk_size
  /\ UNCHANGED <<options, key_list, pc, exitStatus, diff, buckets, pending, k,
                 bloom, max_exp, full_data, out, frees, uaf, history>>

\* lines 516-540: the record is printed, signed when there are keys, and
\* the buffers of the bucket are freed
WriteRecord ==
  /\ pc = "chunk"
  /\ offset >= full_len
  /\ out' = out \o <<[type |-> "TXT", owner |-> txt_rr.owner]>>
              \o (IF key_list THEN <<[type |-> "RRSIG", owner |-> txt_rr.owner]>>
                  ELSE <<>>)
  /\ bloom' = NoBloom
  /\ txt_rr' = NoRr
  /\ full_data' = <<>>
  /\ pc' = "foreach"
  /\ UNCHANGED <<options, key_list, exitStatus, diff, buckets, pending, k,
                 max_exp, offset, frees, uaf, history>>

\* lines 542-551
Finish ==
  /\ pc = "foreach"
  /\ pending = {}
  /\ frees' = DeepFreeMap(frees, exp2rr_list)
  /\ Exit("success")
  /\ UNCHANGED <<options, key_list, diff, buckets, build, out, uaf, history>>

Next ==
  \/ LoadKeys \/ LoadSigs1 \/ LoadSigs2 \/ CanonSort
  \/ MergeLess \/ MergeGreater \/ MergeEqual \/ TailStep \/ CloneAndFree
  \/ BucketStep \/ OpenOutput
  \/ BloomInit \/ BloomAdd \/ Assemble \/ ChunkStep \/ WriteRecord
  \/ Finish

Spec == Init /\ [][Next]_vars

--------------------------------------------------------------------------
(* Properties *)

AfterMerge == pc \in {"bucket", "foreach", "add", "domain", "chunk"}

TxtCount == Cardinality({n \in 1..Len(out) : out[n].type = "TXT"})

\* C1: a signature the merge walk pushes has no canonically equal record
\* anywhere in sigs2, unless it is pushed by the loop that runs after i2
\* has reached the end of sigs2; a step that compares equal pushes nothing.
C1_MergeDifference ==
  [][/\ (pc = "merge" /\ i1 < Len(sigs1) /\ tmp_rrsigs' # tmp_rrsigs)
          => \/ i2 >= Len(sigs2)
             \/ ~\E n \in 1..Len(sigs2) : Compare(rr1, sigs2[n]) = 0
     /\ (InMerge /\ Compare(rr1, rr2) = 0) => tmp_rrsigs' = tmp_rrsigs]_vars

\* C2: while both cursors are in range, an RRSIG of sigs1 that compares
\* less is pushed exactly when current_time + orig_ttl < exp and
\* current_time + exp_buffer_sec < exp as sums of integers (no wrap), and
\* i1 advances by one while i2 stays.
C2_TrueSumStaleness ==
  [][(InMerge /\ Compare(rr1, rr2) < 0 /\ rr1.type = "RRSIG")
       => /\ i1' = i1 + 1
          /\ i2' = i2
          /\ tmp_rrsigs' =
               IF /\ current_time + rr1.ottl < rr1.exp
                  /\ current_time + exp_buffer_sec < rr1.exp
               THEN Append(tmp_rrsigs, rr1) ELSE tmp_rrsigs]_vars

\* C3: once sigs2 is exhausted every remaining record of sigs1 is pushed,
\* whatever the staleness test says, in the order of sigs1; with an empty
\* sigs2 the result is sigs1 itself; and a run that ends with success has
\* one bucket and one TXT record per expiration day of the result.
C3_TailUnconditional ==
  /\ [][(pc = "merge" /\ i2 >= Len(sigs2) /\ i1 < Len(sigs1))
          => /\ tmp_rrsigs' = Append(tmp_rrsigs, rr1)
             /\ i1' = i1 + 1
             /\ i2' = i2]_vars
  /\ [](pc = "merge" => IsSorted(tmp_rrsigs))
  /\ []((AfterMerge /\ Len(sigs2) = 0)
          => Content(affected_rrsigs) = Content(sigs1))
  /\ []((pc = "exit" /\ exitStatus = "success")
          => /\ Cardinality(DOMAIN exp2rr_list) =
                  Cardinality({affected_rrsigs[n].exp \div 86400 :
                                 n \in 1..Len(affected_rrsigs)})
             /\ TxtCount = Cardinality(DOMAIN exp2rr_list))

\* C3 witness: sigs2 is empty, two signatures of different days, one of
\* them failing the staleness test, gave two buckets and two TXT records
C3_Witness ==
  /\ pc = "exit" /\ exitStatus = "success"
  /\ Len(sigs2) = 0
  /\ Len(affected_rrsigs) = 2
  /\ \E n \in 1..2 : ~Stale(current_time, exp_buffer_sec, affected_rrsigs[n])
  /\ Cardinality(DOMAIN exp2rr_list) = 2
  /\ TxtCount = 2

BucketSlots ==
  UNION {{<<d, m>> : m \in 1..Len(exp2rr_list[d])} : d \in DOMAIN exp2rr_list}

\* C4: during and after the bucketing loop the buckets are a partition of
\* the signatures bucketed so far: each one is in exactly one bucket, once,
\* under the key floor(exp / 86400); a bucket holds nothing else and is
\* never empty; nothing bucketed means an empty map.
C4_BucketPartition ==
  AfterMerge =>
    /\ \A d \in DOMAIN exp2rr_list :
         /\ exp2rr_list[d] # <<>>
         /\ \A m \in 1..Len(exp2rr_list[d]) :
              /\ exp2rr_list[d][m].exp \div 86400 = d
              /\ \E n \in 1..i : affected_rrsigs[n] = exp2rr_list[d][m]
    /\ \A n \in 1..i :
         Cardinality({sl \in BucketSlots :
                        exp2rr_list[sl[1]][sl[2]].id = affected_rrsigs[n].id}) = 1
    /\ Cardinality(BucketSlots) = i
    /\ (i = 0 => DOMAIN exp2rr_list = {})
    /\ (pc # "bucket" => i = Len(affected_rrsigs))

\* C4 witness: three signatures in two buckets, one bucket with two
C4_Witness ==
  /\ pc = "foreach"
  /\ i = 3 /\ Len(affected_rrsigs) = 3
  /\ Cardinality(DOMAIN exp2rr_list) = 2
  /\ \E d \in DOMAIN exp2rr_list : Len(exp2rr_list[d]) = 2

RECURSIVE ChunkData(_)
\* the data bytes of the rdata fields, in order, without the length bytes
ChunkData(rdata) ==
  IF rdata = <<>> THEN <<>> ELSE Tail(Head(rdata)) \o ChunkData(Tail(rdata))

\* C5: the data bytes of the rdata fields, in order, are the payload up to
\* offset, and the whole payload (header, struct bloom, bit array) when
\* the loop ends; every field has 1 to 255 data bytes, its first byte is
\* its data length, every field but the last has 255, and at the end
\* there are ceil(L / 255) fields.
C5_ChunkRoundTrip ==
  pc = "chunk" =>
    LET rdata == txt_rr.rdata
        L == Len(full_data)
    IN /\ full_data = HeaderBuf(version, max_exp) \o BloomImage(bloom)
                        \o BloomBits(bloom)
       /\ ChunkData(rdata) = SubSeq(full_data, 1, offset)
       /\ \A n \in 1..Len(rdata) :
            /\ Len(rdata[n]) - 1 \in 1..255
            /\ rdata[n][1] = Len(rdata[n]) - 1
            /\ (n < Len(rdata) => Len(rdata[n]) - 1 = 255)
       /\ offset <= L
       /\ (offset = L => /\ ChunkData(rdata) = full_data
                         /\ Len(rdata) = (L + 254) \div 255)

\* C5 witness: a payload of more than 255 bytes, not a multiple of 255,
\* was chunked to its end
C5_Witness ==
  /\ pc = "chunk"
  /\ offset = Len(full_data)
  /\ Len(txt_rr.rdata) = 3
  /\ Len(txt_rr.rdata[3]) - 1 < 255

\* C6 (as claimed): every filter is created with capacity
\* max(bucket size, 1000).
C6_CapacityFloor ==
  bloom.ready => bloom.entries = Max(Len(exp2rr_list[k]), 1000)

\* C6 (amended): every filter is created with the number of signatures of
\* its bucket as capacity, without a floor, and with the false positive
\* rate of the options.
C6_CapacityIsBucketSize ==
  bloom.ready => /\ bloom.entries = Len(exp2rr_list[k])
                 /\ bloom.error = false_positive

\* C6 witness: a filter for a bucket of two signatures
C6_Witness ==
  bloom.ready /\ Len(exp2rr_list[k]) = 2 /\ bloom.entries = 2

\* C7: with a false positive rate <= 0 no file is read, the output is not
\* opened, no filter is created, and the run does not end with success.
C7_RateRejectedEarly ==
  false_positive <= 0 =>
    /\ filesRead = {}
    /\ ~outputOpened
    /\ filtersCreated = 0
    /\ exitStatus # "success"

\* the run has got as far as opening the output file
Bucketed == outputOpened \/ exitStatus = "file_err"

\* C8 (as claimed): without a domain name nothing is ever written; a run
\* whose difference gave at least one bucket ends with a non-zero status
\* having created at most the first filter, and a run whose difference
\* gave no bucket ends with status 0.
C8_LazyDomainFailure ==
  domain_name = NullPtr =>
    /\ out = <<>>
    /\ (pc = "exit" /\ Bucketed) =>
         IF DOMAIN exp2rr_list # {}
         THEN exitStatus # "success" /\ filtersCreated <= 1
         ELSE exitStatus = "success"

\* C8 (amended): the same, where the run with no bucket ends with status 0
\* provided the output file could be opened, and with a non-zero status
\* when it could not.
C8_LazyDomainFailureOpened ==
  domain_name = NullPtr =>
    /\ out = <<>>
    /\ (pc = "exit" /\ Bucketed) =>
         IF DOMAIN exp2rr_list # {}
         THEN exitStatus # "success" /\ filtersCreated <= 1
         ELSE IF outputOpened THEN exitStatus = "success"
              ELSE exitStatus = "file_err"

\* C8 witness: no domain name, one bucket at least, the run ended with a
\* failure after the first filter was built and before anything was written
C8_Witness ==
  /\ domain_name = NullPtr
  /\ pc = "exit" /\ exitStatus = "failure"
  /\ outputOpened
  /\ DOMAIN exp2rr_list # {}
  /\ filtersCreated = 1
  /\ out = <<>>

\* C9: in both input modes a loaded list holds RRSIG records only, and
\* every RRSIG the parser returned is in it.
C9_OnlyRrsigsLoaded ==
  /\ pc \in {"load2", "sort"} =>
       /\ \A n \in 1..Len(sigs1) : sigs1[n].type = "RRSIG"
       /\ rrsig_file =>
            sigs1 = SelectSeq(files.zone1, LAMBDA r : r.type = "RRSIG")
       /\ ~rrsig_file => sigs1 = ReadFlat(files.zone1)
  /\ pc = "sort" =>
       /\ \A n \in 1..Len(sigs2) : sigs2[n].type = "RRSIG"
       /\ rrsig_file =>
            sigs2 = SelectSeq(files.zone2, LAMBDA r : r.type = "RRSIG")
       /\ ~rrsig_file => sigs2 = ReadFlat(files.zone2)

\* C10: the difference result shares no record with sigs1 or sigs2, no
\* freed record is ever read, and no record is freed twice, on any path
\* to the exit.
C10_NoUseAfterFree ==
  /\ ~uaf
  /\ \A id \in DOMAIN frees : frees[id] <= 1
  /\ (AfterMerge \/ pc = "exit") =>
       Ids(affected_rrsigs) \cap (Ids(sigs1) \cup Ids(sigs2)) = {}

\* C10 witness: a run ended with success in which the two lists and the
\* two records of the result, each also in a bucket, were freed once
C10_Witness ==
  /\ pc = "exit" /\ exitStatus = "success"
  /\ Len(sigs2) >= 1
  /\ Len(affected_rrsigs) >= 2
  /\ \A n \in 1..Len(affected_rrsigs) :
       FreesOf(frees, affected_rrsigs[n].id) = 1
  /\ \A n \in 1..Len(sigs1) : FreesOf(frees, sigs1[n].id) = 1

====
